---- MODULE Spec2Model ----
(***************************************************************************)
(* Model of the iDotMatrix device session                                  *)
(* (custom_components/idotmatrix/coordinator.py,                           *)
(* IDotMatrixDataUpdateCoordinator): connection lifecycle, the serialised  *)
(* command path, the periodic refresh and the mirrored display state.      *)
(*                                                                         *)
(* Coroutines run on one asyncio loop: a step of the model is the code     *)
(* between two suspension points.  The suspension points are the awaits on *)
(* the external library (connectByAddress, device.disconnect, the command  *)
(* function) and the wait for asyncio.Lock when it is held.                *)
(***************************************************************************)
EXTENDS Integers, Sequences, FiniteSets, TLC

\* Number of coroutines that issue commands concurrently.
NCmd == 2
\* self._max_retries (entry option "retry_attempts", 1..10).
MaxRetries == 2

CmdTasks == 1..NCmd
\* Python None for self._device / a bound library target.
None == 0
\* Connection handles the external library hands out in one run: 1..MaxHandles.
MaxHandles == 2

VARIABLES
    connected,      \* self._connected
    device,         \* self._device: None or a handle
    retry_count,    \* self._retry_count
    command_lock,   \* self._command_lock: 0 when free, else the holding task
    waiters,        \* asyncio.Lock's FIFO of suspended acquirers
    state,          \* self._state (DisplayState)
    fired,          \* events put on hass.bus by the latest step
    task,           \* per command coroutine: position, command, bound target
    refresh_pc,     \* _async_update_data: "idle" | "connecting"
    conn_pc,        \* async_connect called by the host: "idle" | "connecting"
    disc_pc,        \* async_disconnect: "idle" | entry point awaiting release
    disc_handle,    \* the handle whose disconnect() is awaited
    handed,         \* library side: how many handles have been handed out
    fails,          \* history: failed refresh reconnects since the last successful connect
    last,           \* history: the operation that completed in the latest step
    data,           \* the dict the latest step returned to the caller of refresh
    registry,       \* hass.data[DOMAIN]: the entry ids that have a session registered
    setup_pc,       \* async_setup_entry / the entry: "idle" | "connecting" | "forwarding" | "loaded" | "failed"
    unload_pc,      \* async_unload_entry: "idle" | "unloading" | "disconnecting"
    entries,        \* host side: unique ids (MAC strings) of the config entries created
    discovered,     \* config flow: self._discovered_devices (their mac_address)
    flow            \* history: the config-flow step that completed in the latest step

sessionvars == <<connected, device, retry_count, command_lock, waiters, state, fired,
                 task, refresh_pc, conn_pc, disc_pc, disc_handle, handed, fails, last,
                 data>>
cfgvars == <<entries, discovered, flow>>
hostvars == <<registry, setup_pc, unload_pc>>
vars == <<sessionvars, cfgvars, hostvars>>

----
\* DisplayState as created by __init__.
DefaultState ==
    [is_on |-> FALSE, brightness |-> 255, screen_flipped |-> FALSE,
     current_mode |-> "clock", clock_style |-> "classic",
     effect_mode |-> "rainbow", last_message |-> ""]

\* A command: the public method, with its integer, boolean and string argument.
Cmd(op, n, flag, msg) == [op |-> op, n |-> n, flag |-> flag, msg |-> msg]
Cmd0(op) == Cmd(op, 0, FALSE, "")
NoCmd == Cmd0("none")

IdleTask == [pc |-> "idle", cmd |-> NoCmd, bound |-> None, issued_connected |-> FALSE]

\* A config-flow result: the step, the address it was given, the FlowResult
\* type and the error shown with a form.
Flow(step, input, result, error) ==
    [step |-> step, input |-> input, result |-> result, error |-> error]
NoFlow == Flow("none", <<>>, "none", "")

\* What refresh hands to its caller: the dict's content, and whether it is the
\* session's own dict object.  NoData: the step returned no dict.
NoData == [returned |-> FALSE, value |-> DefaultState, shared |-> FALSE]

\* ext: what the external library did in the operation ("-": it was not called).
NoOp == [op |-> "none", result |-> "None", ext |-> "-"]

Init ==
    /\ connected = FALSE
    /\ device = None
    /\ retry_count = 0
    /\ command_lock = 0
    /\ waiters = <<>>
    /\ state = DefaultState
    /\ fired = <<>>
    /\ task = [t \in CmdTasks |-> IdleTask]
    /\ refresh_pc = "idle"
    /\ conn_pc = "idle"
    /\ disc_pc = "idle"
    /\ disc_handle = None
    /\ handed = 0
    /\ fails = 0
    /\ last = NoOp
    /\ data = NoData
    /\ registry = {}
    /\ setup_pc = "idle"
    /\ unload_pc = "idle"
    /\ entries = {}
    /\ discovered = {}
    /\ flow = NoFlow

----
(* External library outcomes of ConnectionManager.connectByAddress followed by
   reading .client: a handle, no handle (client is None), or an exception. *)
ConnectOutcomes == {"handle", "none", "raise"}

\* Every successful connectByAddress yields a client object of its own.
NewHandle == handed + 1

\* _fire_event: the payload always carries device_id and mac_address.
Event(type, extra) == [type |-> type, keys |-> {"device_id", "mac_address"} \cup extra]

Done(op, result, ext) == [op |-> op, result |-> result, ext |-> ext]

\* async_connect, line 89: self._device = self._connection_manager.client
\* (not reached when connectByAddress raises).
DeviceAfterConnect(o, d) ==
    CASE o = "handle" -> NewHandle
      [] o = "none"   -> None
      [] OTHER        -> d

\* async_connect, lines 91-92: self._connected = True only with a handle.
ConnectedAfterConnect(o, c) == IF o = "handle" THEN TRUE ELSE c

\* Variant: async_connect leaves the retry counter alone.
RetryKeptOnConnect(o, r) == r

\* Variant: the counter is reset whatever the outcome.
RetryAlwaysReset(o, r) == 0

\* async_connect, line 93: self._retry_count = 0 only with a handle.
RetryAfterConnect(o, r) == IF o = "handle" THEN 0 ELSE r

\* async_connect's return value.
ConnectResult(o) == IF o = "handle" THEN "True" ELSE "False"

(* async_connect called by the host (async_setup_entry calls it on a fresh
   session).  The callers in the repository invoke it only on a disconnected
   session and never while refresh is connecting. *)
ConnectStart ==
    /\ UNCHANGED cfgvars
    /\ UNCHANGED hostvars
    /\ data' = NoData
    /\ conn_pc = "idle"
    /\ refresh_pc = "idle"
    /\ ~connected
    /\ conn_pc' = "connecting"
    /\ fired' = <<>>
    /\ UNCHANGED <<connected, device, retry_count, command_lock, waiters, state,
                   task, refresh_pc, disc_pc, disc_handle, fails, last>>
    /\ UNCHANGED handed

ConnectDone(o) ==
    /\ UNCHANGED cfgvars
    /\ UNCHANGED hostvars
    /\ data' = NoData
    /\ o = "handle" => handed < MaxHandles
    /\ handed' = IF o = "handle" THEN handed + 1 ELSE handed
    /\ conn_pc = "connecting"
    /\ device' = DeviceAfterConnect(o, device)
    /\ connected' = ConnectedAfterConnect(o, connected)
    /\ retry_count' = RetryAfterConnect(o, retry_count)
    /\ fails' = IF o = "handle" THEN 0 ELSE fails
    /\ conn_pc' = "idle"
    /\ fired' = <<>>
    /\ last' = Done("connect", ConnectResult(o), o)
    /\ UNCHANGED <<command_lock, waiters, state, task, refresh_pc, disc_pc, disc_handle>>

\* async_disconnect, line 106: the release is attempted only in this case.
ShouldRelease == device # None /\ connected

\* Variant: the flag is cleared inside the try block, after the awaited disconnect().
ConnectedUnlessReleaseRaised(raised) == raised

\* async_disconnect, lines 111-113 (finally): runs whether or not disconnect() raised.
ConnectedAfterRelease(raised) == FALSE

(* async_disconnect, or async_shutdown which only logs and delegates to it, up
   to the await.  The host unloads an entry once: one call at a time. *)
DisconnectStart(entry) ==
    /\ UNCHANGED cfgvars
    /\ UNCHANGED hostvars
    /\ data' = NoData
    /\ disc_pc = "idle"
    /\ fired' = <<>>
    /\ IF ShouldRelease
       THEN /\ disc_pc' = entry
            /\ disc_handle' = device
            /\ UNCHANGED last
       ELSE /\ last' = Done(entry, "None", "-")
            /\ UNCHANGED <<disc_pc, disc_handle>>
    /\ UNCHANGED <<connected, device, retry_count, command_lock, waiters, state,
                   task, refresh_pc, conn_pc, fails>>
    /\ UNCHANGED handed

\* device.disconnect() returned or raised; the exception is logged.
DisconnectDone(raised) ==
    /\ UNCHANGED cfgvars
    /\ UNCHANGED hostvars
    /\ data' = NoData
    /\ disc_pc # "idle"
    /\ connected' = ConnectedAfterRelease(raised)
    /\ device' = None
    /\ disc_pc' = "idle"
    /\ disc_handle' = None
    /\ fired' = <<>>
    /\ last' = Done(disc_pc, "None", IF raised THEN "raise" ELSE "ok")
    /\ UNCHANGED <<retry_count, command_lock, waiters, state, task, refresh_pc,
                   conn_pc, fails>>
    /\ UNCHANGED handed

\* Variant: the comparison with the ceiling is off by one.
RetryAtCeiling(r) == r <= MaxRetries

\* _async_update_data, line 118: a reconnect is attempted below the ceiling.
MayRetry(r) == r < MaxRetries

\* Variant: a failed reconnect is not counted.
RetryNeverCounted(ok, r) == IF ok THEN 0 ELSE r

\* _async_update_data, lines 120-123.
RetryAfterRefresh(ok, r) == IF ok THEN 0 ELSE r + 1

\* Variant: refresh returns self._state itself.
SharedState(s) == [returned |-> TRUE, value |-> s, shared |-> TRUE]

\* _async_update_data, line 128: self._state.copy(), a new dict of the same
\* (immutable) values.
Snapshot(s) == [returned |-> TRUE, value |-> s, shared |-> FALSE]

(* _async_update_data up to its first await, or to its end.  The host timer
   starts a refresh only after the previous one has finished. *)
RefreshStart ==
    /\ UNCHANGED cfgvars
    /\ UNCHANGED hostvars
    /\ refresh_pc = "idle"
    /\ conn_pc = "idle"
    /\ fired' = <<>>
    /\ IF connected
       THEN /\ last' = Done("refresh", "state", "-")
            /\ data' = Snapshot(state)
            /\ UNCHANGED refresh_pc
       ELSE IF MayRetry(retry_count)
            THEN /\ refresh_pc' = "connecting"
                 /\ data' = NoData
                 /\ UNCHANGED last
            ELSE /\ last' = Done("refresh", "UpdateFailed", "-")
                 /\ data' = NoData
                 /\ UNCHANGED refresh_pc
    /\ UNCHANGED <<connected, device, retry_count, command_lock, waiters, state,
                   task, conn_pc, disc_pc, disc_handle, fails>>
    /\ UNCHANGED handed

\* The awaited async_connect finished; refresh adjusts the counter and returns the state.
RefreshConnectDone(o) ==
    /\ UNCHANGED cfgvars
    /\ UNCHANGED hostvars
    /\ o = "handle" => handed < MaxHandles
    /\ handed' = IF o = "handle" THEN handed + 1 ELSE handed
    /\ refresh_pc = "connecting"
    /\ device' = DeviceAfterConnect(o, device)
    /\ connected' = ConnectedAfterConnect(o, connected)
    /\ retry_count' = RetryAfterRefresh(ConnectResult(o) = "True",
                                        RetryAfterConnect(o, retry_count))
    /\ fails' = IF o = "handle" THEN 0 ELSE fails + 1
    /\ refresh_pc' = "idle"
    /\ fired' = <<>>
    /\ last' = Done("refresh", "state", o)
    /\ data' = Snapshot(state)
    /\ UNCHANGED <<command_lock, waiters, state, task, conn_pc, disc_pc, disc_handle>>

----
(* The command surface.  Every public command evaluates its library target
   (for example Common(self._device).turn_on_device) when it is called and
   passes it to _async_send_command. *)

\* async_set_brightness, line 170: int((brightness / 255) * 100); the float
\* expression equals the integer floor for every brightness in 0..255.
DeviceBrightness(b) == (b * 100) \div 255

\* async_set_screen_flip, line 185.
Rotation(flipped) == IF flipped THEN 180 ELSE 0

\* async_set_clock_mode, lines 218-219: style_names.get(style, "classic").
ClockStyleName(n) ==
    CASE n = 0 -> "classic" [] n = 1 -> "digital" [] n = 2 -> "analog"
      [] n = 3 -> "minimal" [] n = 4 -> "colorful" [] OTHER -> "classic"

\* async_display_effect, lines 244-245: effect_names.get(effect_type, "rainbow").
EffectName(n) ==
    CASE n = 0 -> "rainbow" [] n = 1 -> "breathing" [] n = 2 -> "wave"
      [] n = 3 -> "fire" [] n = 4 -> "snow" [] n = 5 -> "matrix"
      [] n = 6 -> "stars" [] n = 7 -> "plasma" [] OTHER -> "rainbow"

\* The value handed to the external operation as its first argument (0 when
\* the operation takes none that the model tracks).
SentValue(c) ==
    CASE c.op = "set_brightness"  -> DeviceBrightness(c.n)
      [] c.op = "set_screen_flip" -> Rotation(c.flag)
      [] OTHER                    -> c.n

\* Variant: the mirror stores the device percentage instead of the HA value.
StoredAsPercent(b) == DeviceBrightness(b)

\* async_set_brightness, line 177: self._state["brightness"] = brightness.
StoredBrightness(b) == b

\* The "if success:" block of each public command: the DisplayState update.
StateAfter(c, s) ==
    CASE c.op = "turn_on"          -> [s EXCEPT !.is_on = TRUE]
      [] c.op = "turn_off"         -> [s EXCEPT !.is_on = FALSE]
      [] c.op = "set_brightness"   -> [s EXCEPT !.brightness = StoredBrightness(c.n)]
      [] c.op = "set_screen_flip"  -> [s EXCEPT !.screen_flipped = c.flag]
      [] c.op = "display_text"     -> [s EXCEPT !.last_message = c.msg,
                                                !.current_mode = "text"]
      [] c.op = "set_clock_mode"   -> [s EXCEPT !.current_mode = "clock",
                                                !.clock_style = ClockStyleName(c.n)]
      [] c.op = "display_effect"   -> [s EXCEPT !.current_mode = "effect",
                                                !.effect_mode = EffectName(c.n)]
      [] c.op = "start_chronograph" -> [s EXCEPT !.current_mode = "chronograph"]
      [] c.op = "reset_device"     -> [s EXCEPT !.is_on = TRUE,
                                                !.brightness = 255,
                                                !.screen_flipped = FALSE,
                                                !.current_mode = "clock",
                                                !.clock_style = "classic"]
      [] OTHER                     -> s

\* The "if success:" block of each public command: the events fired.
EventsAfter(c) ==
    CASE c.op = "turn_on"          -> <<Event("display_on", {})>>
      [] c.op = "turn_off"         -> <<Event("display_off", {}), Event("turned_off", {})>>
      [] c.op = "set_brightness"   -> <<Event("brightness_changed", {"brightness"})>>
      [] c.op = "set_screen_flip"  -> <<Event("screen_flipped", {"flipped"})>>
      [] c.op = "display_text"     -> <<Event("text_displayed", {"message"})>>
      [] c.op = "set_clock_mode"   -> <<Event("clock_mode_set", {"style"})>>
      [] c.op = "display_effect"   -> <<Event("effect_displayed", {"effect_type"})>>
      [] c.op = "start_chronograph" -> <<Event("chronograph_started", {})>>
      [] c.op = "stop_chronograph" -> <<Event("chronograph_stopped", {})>>
      [] c.op = "reset_chronograph" -> <<Event("chronograph_reset", {})>>
      [] c.op = "reset_device"     -> <<Event("device_reset", {})>>
      [] OTHER                     -> <<>>

\* Variant: only the handle is tested, not the connected flag.
NoHandle == device = None

\* _async_send_command, line 133.
NotConnected == ~connected \/ device = None

\* Variant: the command error is logged but the session stays marked connected.
ConnectedKeptAfterCommandError == connected

\* _async_send_command, line 142.
ConnectedAfterCommandError == FALSE

\* Variant: no serialisation: every acquire succeeds at once.
LockAlwaysFree == TRUE

\* asyncio.Lock.acquire returns at once only when the lock is free and nobody waits.
LockFree == command_lock = 0 /\ waiters = <<>>

\* Variant: the lock is not released when the "async with" block is left.
ReleaseKeepsLock(tk) ==
    /\ command_lock' = command_lock
    /\ waiters' = waiters
    /\ task' = tk

(* asyncio.Lock.release after task t left the "async with" block: tk is the
   task table with t finished; the lock goes to the first waiter, which
   resumes later. *)
Release(tk) ==
    IF waiters = <<>>
    THEN /\ command_lock' = 0
         /\ waiters' = waiters
         /\ task' = tk
    ELSE /\ command_lock' = Head(waiters)
         /\ waiters' = Tail(waiters)
         /\ task' = [tk EXCEPT ![Head(waiters)].pc = "acquired"]

(* Inside the lock: the connection check, then the call of the bound target.
   tk is the task table with t's command recorded. *)
CheckAndInvoke(t, tk) ==
    IF NotConnected
    THEN /\ Release([tk EXCEPT ![t] = IdleTask])
         /\ last' = Done(tk[t].cmd.op, "False", "-")
    ELSE /\ command_lock' = t
         /\ waiters' = waiters
         /\ task' = [tk EXCEPT ![t].pc = "inflight"]
         /\ UNCHANGED last

(* A public command is called: the target is bound, then the lock is taken or
   awaited.  Task identities are interchangeable, so a new call takes the
   lowest idle slot. *)
IssueCommand(t, c) ==
    /\ UNCHANGED cfgvars
    /\ UNCHANGED hostvars
    /\ data' = NoData
    /\ task[t].pc = "idle"
    /\ \A u \in CmdTasks : u < t => task[u].pc # "idle"
    /\ fired' = <<>>
    /\ LET tk == [task EXCEPT ![t] = [pc |-> "waiting", cmd |-> c, bound |-> device,
                                      issued_connected |-> connected]]
       IN IF LockFree
          THEN CheckAndInvoke(t, tk)
          ELSE /\ waiters' = Append(waiters, t)
               /\ task' = tk
               /\ UNCHANGED <<command_lock, last>>
    /\ UNCHANGED <<connected, device, retry_count, state, refresh_pc, conn_pc,
                   disc_pc, disc_handle, fails>>
    /\ UNCHANGED handed

\* A waiter that was given the lock resumes.
ResumeCommand(t) ==
    /\ UNCHANGED cfgvars
    /\ UNCHANGED hostvars
    /\ data' = NoData
    /\ task[t].pc = "acquired"
    /\ fired' = <<>>
    /\ CheckAndInvoke(t, task)
    /\ UNCHANGED <<connected, device, retry_count, state, refresh_pc, conn_pc,
                   disc_pc, disc_handle, fails>>
    /\ UNCHANGED handed

\* The external operation returned: True is returned and the caller updates the mirror.
CommandReturn(t) ==
    /\ UNCHANGED cfgvars
    /\ UNCHANGED hostvars
    /\ data' = NoData
    /\ task[t].pc = "inflight"
    /\ state' = StateAfter(task[t].cmd, state)
    /\ fired' = EventsAfter(task[t].cmd)
    /\ Release([task EXCEPT ![t] = IdleTask])
    /\ last' = Done(task[t].cmd.op, "True", "ok")
    /\ UNCHANGED <<connected, device, retry_count, refresh_pc, conn_pc, disc_pc,
                   disc_handle, fails>>
    /\ UNCHANGED handed

\* The external operation raised: logged, the session is marked disconnected.
CommandRaise(t) ==
    /\ UNCHANGED cfgvars
    /\ UNCHANGED hostvars
    /\ data' = NoData
    /\ task[t].pc = "inflight"
    /\ connected' = ConnectedAfterCommandError
    /\ fired' = <<>>
    /\ Release([task EXCEPT ![t] = IdleTask])
    /\ last' = Done(task[t].cmd.op, "False", "raise")
    /\ UNCHANGED <<device, retry_count, state, refresh_pc, conn_pc, disc_pc,
                   disc_handle, fails>>
    /\ UNCHANGED handed

\* async__display_image: no library call, no lock, no await.
DisplayImage ==
    /\ UNCHANGED cfgvars
    /\ UNCHANGED hostvars
    /\ data' = NoData
    /\ state' = [state EXCEPT !.current_mode = "image"]
    /\ fired' = <<Event("image_displayed", {"image_path"})>>
    /\ last' = Done("display_image", "True", "-")
    /\ UNCHANGED <<connected, device, retry_count, command_lock, waiters, task,
                   refresh_pc, conn_pc, disc_pc, disc_handle, fails>>
    /\ UNCHANGED handed

----
\* Commands issued in the lifecycle and concurrency specification.
SessionCommands == {Cmd0("turn_on")}

\* Inputs of the command surface.
BrightnessInputs == {0, 128, 255}
StyleInputs == {1, 9}
EffectInputs == {1, 9}
SurfaceCommands ==
    {Cmd0(op) : op \in {"turn_on", "turn_off", "sync_time", "start_chronograph",
                        "stop_chronograph", "reset_chronograph", "freeze_screen",
                        "reset_device"}}
    \cup {Cmd("set_brightness", b, FALSE, "") : b \in BrightnessInputs}
    \cup {Cmd("set_screen_flip", 0, f, "") : f \in BOOLEAN}
    \cup {Cmd("display_text", 0, FALSE, "hi")}
    \cup {Cmd("set_clock_mode", n, FALSE, "") : n \in StyleInputs}
    \cup {Cmd("display_effect", n, FALSE, "") : n \in EffectInputs}

Next ==
    \/ ConnectStart
    \/ \E o \in ConnectOutcomes : ConnectDone(o)
    \/ \E e \in {"disconnect", "shutdown"} : DisconnectStart(e)
    \/ \E r \in BOOLEAN : DisconnectDone(r)
    \/ RefreshStart
    \/ \E o \in ConnectOutcomes : RefreshConnectDone(o)
    \/ \E t \in CmdTasks, c \in SessionCommands : IssueCommand(t, c)
    \/ \E t \in CmdTasks : ResumeCommand(t)
    \/ \E t \in CmdTasks : CommandReturn(t)
    \/ \E t \in CmdTasks : CommandRaise(t)

Spec == Init /\ [][Next]_vars

(* The whole command surface, issued by one caller at a time on a session
   that the host connects and reconnects. *)
NextSurface ==
    \/ ConnectStart
    \/ \E o \in ConnectOutcomes : ConnectDone(o)
    \/ \E c \in SurfaceCommands : IssueCommand(1, c)
    \/ CommandReturn(1)
    \/ CommandRaise(1)
    \/ DisplayImage

SpecSurface == Init /\ [][NextSurface]_vars

(* The command path under a running event loop: concurrent callers on a
   session the host connects; a coroutine that was given the lock is resumed,
   and the external operation of a command in flight returns or raises. *)
Finishes(t) == CommandReturn(t) \/ CommandRaise(t)
CommandFairness ==
    \A t \in CmdTasks : WF_vars(ResumeCommand(t)) /\ WF_vars(Finishes(t))

NextLive ==
    \/ ConnectStart
    \/ \E o \in ConnectOutcomes : ConnectDone(o)
    \/ \E t \in CmdTasks, c \in SessionCommands : IssueCommand(t, c)
    \/ \E t \in CmdTasks : ResumeCommand(t)
    \/ \E t \in CmdTasks : CommandReturn(t)
    \/ \E t \in CmdTasks : CommandRaise(t)

SpecLive == Init /\ [][NextLive]_vars /\ CommandFairness

(* Refresh and its caller: the host reads the dict refresh returned and may
   change it; one caller issues commands that change the mirror. *)
ModifiedFields == {"is_on", "last_message"}
Changed(f, v) == IF f = "is_on" THEN ~v ELSE IF v = "" THEN "x" ELSE ""

\* The caller assigns to key f of the dict it received; the session's dict
\* changes with it only if it is the same object.
CallerModifiesData(f) ==
    /\ data.returned
    /\ data' = [data EXCEPT !.value[f] = Changed(f, @)]
    /\ state' = IF data.shared THEN data'.value ELSE state
    /\ fired' = <<>>
    /\ UNCHANGED <<connected, device, retry_count, command_lock, waiters, task,
                   refresh_pc, conn_pc, disc_pc, disc_handle, handed, fails, last>>
    /\ UNCHANGED cfgvars
    /\ UNCHANGED hostvars

RefreshCommands == {Cmd0("turn_on"), Cmd("display_text", 0, FALSE, "hi")}

NextRefresh ==
    \/ ConnectStart
    \/ \E o \in ConnectOutcomes : ConnectDone(o)
    \/ \E e \in {"disconnect", "shutdown"} : DisconnectStart(e)
    \/ \E r \in BOOLEAN : DisconnectDone(r)
    \/ RefreshStart
    \/ \E o \in ConnectOutcomes : RefreshConnectDone(o)
    \/ \E c \in RefreshCommands : IssueCommand(1, c)
    \/ CommandReturn(1)
    \/ CommandRaise(1)
    \/ \E f \in ModifiedFields : CallerModifiesData(f)

SpecRefresh == Init /\ [][NextRefresh]_vars

(* The session as the integration hosts it.  async_setup_entry connects a
   fresh session once and registers it only if that connect succeeded
   (otherwise ConfigEntryNotReady is raised and the session is dropped);
   after that the only caller of async_connect is refresh. *)
Fresh == last = NoOp
Registered == handed >= 1

NextHosted ==
    \/ Fresh /\ ConnectStart
    \/ \E o \in ConnectOutcomes : ConnectDone(o)
    \/ Registered /\ \E e \in {"disconnect", "shutdown"} : DisconnectStart(e)
    \/ Registered /\ \E r \in BOOLEAN : DisconnectDone(r)
    \/ Registered /\ RefreshStart
    \/ Registered /\ \E o \in ConnectOutcomes : RefreshConnectDone(o)
    \/ Registered /\ \E t \in CmdTasks, c \in SessionCommands : IssueCommand(t, c)
    \/ Registered /\ \E t \in CmdTasks : ResumeCommand(t)
    \/ Registered /\ \E t \in CmdTasks : CommandReturn(t)
    \/ Registered /\ \E t \in CmdTasks : CommandRaise(t)

SpecHosted == Init /\ [][NextHosted]_vars

----
(* Entry setup and unload (__init__.py).  The host sets up an entry that is
   not loaded, and unloads a loaded one; a set-up creates a new session
   object.  Platform set-up and unload are the host's, with either outcome. *)

EntryId == "entry"

\* Nothing of a previous session object is still running.
Quiescent ==
    /\ \A t \in CmdTasks : task[t].pc = "idle"
    /\ refresh_pc = "idle" /\ conn_pc = "idle" /\ disc_pc = "idle"

\* Variant: the session is registered before the connect result is tested.
RegisteredWhateverOutcome(o, reg) == reg \cup {EntryId}

\* async_setup_entry, lines 16-19: registered only past the ConfigEntryNotReady test.
RegistryAfterSetup(o, reg) == IF o = "handle" THEN reg \cup {EntryId} ELSE reg

\* async_setup_entry up to the await of async_connect on the new session (lines 14-16).
SetupStart ==
    /\ setup_pc = "idle" /\ unload_pc = "idle"
    /\ Quiescent
    /\ connected' = FALSE
    /\ device' = None
    /\ retry_count' = 0
    /\ command_lock' = 0
    /\ waiters' = <<>>
    /\ state' = DefaultState
    /\ fails' = 0
    /\ conn_pc' = "connecting"
    /\ setup_pc' = "connecting"
    /\ fired' = <<>>
    /\ data' = NoData
    /\ UNCHANGED <<task, refresh_pc, disc_pc, disc_handle, handed, last>>
    /\ UNCHANGED <<registry, unload_pc>>
    /\ UNCHANGED cfgvars

\* async_connect finished: ConfigEntryNotReady, or the session is registered
\* and the platforms are forwarded (lines 16-21).
SetupConnectDone(o) ==
    /\ setup_pc = "connecting"
    /\ o = "handle" => handed < MaxHandles
    /\ handed' = IF o = "handle" THEN handed + 1 ELSE handed
    /\ device' = DeviceAfterConnect(o, device)
    /\ connected' = ConnectedAfterConnect(o, connected)
    /\ retry_count' = RetryAfterConnect(o, retry_count)
    /\ fails' = IF o = "handle" THEN 0 ELSE fails
    /\ conn_pc' = "idle"
    /\ registry' = RegistryAfterSetup(o, registry)
    /\ IF o = "handle"
       THEN /\ setup_pc' = "forwarding"
            /\ last' = Done("connect", ConnectResult(o), o)
       ELSE /\ setup_pc' = "idle"
            /\ last' = Done("setup", "ConfigEntryNotReady", o)
    /\ fired' = <<>>
    /\ data' = NoData
    /\ UNCHANGED <<command_lock, waiters, state, task, refresh_pc, disc_pc, disc_handle>>
    /\ UNCHANGED unload_pc
    /\ UNCHANGED cfgvars

\* async_forward_entry_setups returned (setup returns True) or raised (lines 21-23).
SetupForwardDone(ok) ==
    /\ setup_pc = "forwarding"
    /\ setup_pc' = IF ok THEN "loaded" ELSE "failed"
    /\ last' = Done("setup", IF ok THEN "True" ELSE "raise", "-")
    /\ fired' = <<>>
    /\ data' = NoData
    /\ UNCHANGED <<connected, device, retry_count, command_lock, waiters, state, task,
                   refresh_pc, conn_pc, disc_pc, disc_handle, handed, fails>>
    /\ UNCHANGED <<registry, unload_pc>>
    /\ UNCHANGED cfgvars

\* async_unload_entry up to the await of async_unload_platforms (line 28).
UnloadStart ==
    /\ setup_pc = "loaded" /\ unload_pc = "idle"
    /\ unload_pc' = "unloading"
    /\ fired' = <<>>
    /\ data' = NoData
    /\ UNCHANGED <<connected, device, retry_count, command_lock, waiters, state, task,
                   refresh_pc, conn_pc, disc_pc, disc_handle, handed, fails, last>>
    /\ UNCHANGED <<registry, setup_pc>>
    /\ UNCHANGED cfgvars

(* async_unload_platforms returned unload_ok (lines 28-32): False is returned
   as it is; with True the session is popped and async_shutdown runs
   async_disconnect up to its await, or to its end when there is nothing to
   release. *)
UnloadPlatformsDone(ok) ==
    /\ unload_pc = "unloading"
    /\ fired' = <<>>
    /\ data' = NoData
    /\ IF ~ok
       THEN /\ unload_pc' = "idle"
            /\ last' = Done("unload", "False", "-")
            /\ UNCHANGED <<registry, setup_pc, disc_pc, disc_handle>>
       ELSE /\ registry' = registry \ {EntryId}
            /\ IF ShouldRelease
               THEN /\ disc_pc' = "shutdown"
                    /\ disc_handle' = device
                    /\ unload_pc' = "disconnecting"
                    /\ UNCHANGED <<setup_pc, last>>
               ELSE /\ unload_pc' = "idle"
                    /\ setup_pc' = "idle"
                    /\ last' = Done("unload", "True", "-")
                    /\ UNCHANGED <<disc_pc, disc_handle>>
    /\ UNCHANGED <<connected, device, retry_count, command_lock, waiters, state, task,
                   refresh_pc, conn_pc, handed, fails>>
    /\ UNCHANGED cfgvars

\* device.disconnect() of async_shutdown returned or raised; unload returns True.
UnloadDisconnectDone(raised) ==
    /\ unload_pc = "disconnecting"
    /\ connected' = ConnectedAfterRelease(raised)
    /\ device' = None
    /\ disc_pc' = "idle"
    /\ disc_handle' = None
    /\ unload_pc' = "idle"
    /\ setup_pc' = "idle"
    /\ last' = Done("unload", "True", IF raised THEN "raise" ELSE "ok")
    /\ fired' = <<>>
    /\ data' = NoData
    /\ UNCHANGED <<retry_count, command_lock, waiters, state, task, refresh_pc,
                   conn_pc, handed, fails>>
    /\ UNCHANGED registry
    /\ UNCHANGED cfgvars

\* The entities and the refresh timer exist while the entry is loaded.
Loaded == setup_pc = "loaded" /\ unload_pc = "idle"

NextEntry ==
    \/ SetupStart
    \/ \E o \in ConnectOutcomes : SetupConnectDone(o)
    \/ \E ok \in BOOLEAN : SetupForwardDone(ok)
    \/ UnloadStart
    \/ \E ok \in BOOLEAN : UnloadPlatformsDone(ok)
    \/ \E r \in BOOLEAN : UnloadDisconnectDone(r)
    \/ Loaded /\ RefreshStart
    \/ \E o \in ConnectOutcomes : RefreshConnectDone(o)
    \/ Loaded /\ \E c \in SessionCommands : IssueCommand(1, c)
    \/ CommandReturn(1)
    \/ CommandRaise(1)

SpecEntry == Init /\ [][NextEntry]_vars

----
(* The configuration flow (config_flow.py, IDotMatrixConfigFlow).  A MAC
   address is a Python str, modelled as the sequence of its characters.  The
   host's unique-id registry compares unique ids as strings. *)

\* Config entries one run creates at most.
MaxEntries == 2

HexDigits == {"0", "1", "2", "3", "4", "5", "6", "7", "8", "9",
              "A", "B", "C", "D", "E", "F", "a", "b", "c", "d", "e", "f"}
Separators == {":", "-"}

\* str.upper() on the characters that occur in the inputs.
UpperChar(c) ==
    CASE c = "a" -> "A" [] c = "b" -> "B" [] c = "c" -> "C" [] c = "d" -> "D"
      [] c = "e" -> "E" [] c = "f" -> "F" [] c = "g" -> "G" [] OTHER -> c
Upper(s) == [i \in 1..Len(s) |-> UpperChar(s[i])]

\* ([0-9A-Fa-f]{2}[:-]) matched at position i of s.
GroupAt(s, i) ==
    /\ i + 2 <= Len(s)
    /\ s[i] \in HexDigits /\ s[i + 1] \in HexDigits
    /\ s[i + 2] \in Separators

\* ([0-9A-Fa-f]{2}) matched at position i of s.
PairAt(s, i) == i + 1 <= Len(s) /\ s[i] \in HexDigits /\ s[i + 1] \in HexDigits

\* Python's $ (no MULTILINE) at position i: the end of the string, or just
\* before a newline that is the last character.
DollarAt(s, i) == i = Len(s) + 1 \/ (i = Len(s) /\ s[i] = "\n")

\* _is_valid_mac_address: pattern.match anchors at the start; the five groups
\* and the last pair take three and two characters each, without alternatives.
IsValidMac(s) ==
    /\ \A k \in 0..4 : GroupAt(s, 1 + 3 * k)
    /\ PairAt(s, 16)
    /\ DollarAt(s, 18)

\* Addresses a user types or a caller passes: the well-formed addresses and
\* every string one character away from one (a character of EditChars
\* substituted or inserted anywhere, or any one character deleted), and
\* strings with a pair too few or too many, or with a non-hex pair.
MacUpperColon == <<"A","A",":","B","B",":","C","C",":","D","D",":","E","E",":","F","F">>
MacLowerDash == <<"a","a","-","b","b","-","c","c","-","d","d","-","e","e","-","f","f">>
FivePairs == SubSeq(MacUpperColon, 1, 14)
SevenPairs == MacUpperColon \o <<":", "0", "0">>
NonHexPair == [MacUpperColon EXCEPT ![1] = "G", ![2] = "G"]
MixedSeparators == [MacUpperColon EXCEPT ![6] = "-", ![12] = "-"]
EditChars == {"g", "\n"}
Substituted(s) == {[s EXCEPT ![i] = c] : i \in 1..Len(s), c \in EditChars}
Inserted(s) ==
    {SubSeq(s, 1, i - 1) \o <<c>> \o SubSeq(s, i, Len(s)) :
        i \in 1..(Len(s) + 1), c \in EditChars}
Deleted(s) == {SubSeq(s, 1, i - 1) \o SubSeq(s, i + 1, Len(s)) : i \in 1..Len(s)}
MacInputs ==
    {MacUpperColon, MacLowerDash, MixedSeparators, FivePairs, SevenPairs,
     NonHexPair, <<>>}
    \cup Substituted(MacUpperColon) \cup Inserted(MacUpperColon)
    \cup Deleted(MacUpperColon)

\* Addresses ConnectionManager.scan() reports for the device in range.
MacLowerColon == [i \in 1..17 |-> IF i % 3 = 0 THEN ":" ELSE MacLowerDash[i]]
ScanReports == {MacUpperColon, Upper(MacLowerDash), MacLowerColon}
\* scan() raises, or returns the list of addresses found.
ScanOutcomes ==
    {[raised |-> TRUE, devices |-> {}]}
    \cup {[raised |-> FALSE, devices |-> d] : d \in {{}} \cup {{m} : m \in ScanReports}}

(* async_set_unique_id + _abort_if_unique_id_configured + async_create_entry
   for address mac: the flow aborts if an entry has this unique id, else the
   entry is created. *)
EntriesAfter(mac) == IF mac \in entries THEN entries ELSE entries \cup {mac}
ResultAfter(mac) == IF mac \in entries THEN "abort" ELSE "create_entry"
ErrorAfter(mac) == IF mac \in entries THEN "already_configured" ELSE ""

\* The run stays within MaxEntries entries.
RoomFor(mac) == mac \in entries \/ Cardinality(entries) < MaxEntries

\* _is_valid_mac_address called directly on an address.
ValidateCall(m) ==
    /\ flow' = Flow("validate", m, IF IsValidMac(m) THEN "True" ELSE "False", "")
    /\ UNCHANGED <<entries, discovered>>
    /\ UNCHANGED sessionvars
    /\ UNCHANGED hostvars

\* async_step_manual with a user_input whose address is m.
ManualStep(m) ==
    /\ LET mac_address == Upper(m)
       IN IF ~IsValidMac(mac_address)
          THEN /\ flow' = Flow("manual", m, "form", "invalid_mac")
               /\ UNCHANGED entries
          ELSE /\ RoomFor(mac_address)
               /\ entries' = EntriesAfter(mac_address)
               /\ flow' = Flow("manual", m, ResultAfter(mac_address),
                               ErrorAfter(mac_address))
    /\ UNCHANGED discovered
    /\ UNCHANGED sessionvars
    /\ UNCHANGED hostvars

\* async_step_discovery without a selection: the scan, then the form.
DiscoveryScan(o) ==
    /\ discovered' = IF o.raised THEN discovered ELSE o.devices
    /\ flow' = Flow("discovery", <<>>, "form",
                    IF o.raised THEN "scan_failed"
                    ELSE IF o.devices = {} THEN "no_devices_found" ELSE "")
    /\ UNCHANGED entries
    /\ UNCHANGED sessionvars
    /\ UNCHANGED hostvars

\* async_step_discovery with user_input {"device": m}, m one of the options shown.
DiscoverySelect(m) ==
    /\ m \in discovered
    /\ RoomFor(m)
    /\ entries' = EntriesAfter(m)
    /\ flow' = Flow("discovery", m, ResultAfter(m), ErrorAfter(m))
    /\ UNCHANGED discovered
    /\ UNCHANGED sessionvars
    /\ UNCHANGED hostvars

\* async_step_discovery with a user_input without "device": the manual form is shown.
DiscoveryToManual ==
    /\ flow' = Flow("discovery", <<>>, "form_manual", "")
    /\ UNCHANGED <<entries, discovered>>
    /\ UNCHANGED sessionvars
    /\ UNCHANGED hostvars

NextConfig ==
    \/ \E m \in MacInputs : ValidateCall(m)
    \/ \E m \in MacInputs : ManualStep(m)
    \/ \E o \in ScanOutcomes : DiscoveryScan(o)
    \/ \E m \in ScanReports : DiscoverySelect(m)
    \/ DiscoveryToManual

SpecConfig == Init /\ [][NextConfig]_vars

----
(* Properties of the session, one per claim. *)

CommandOps == {c.op : c \in SurfaceCommands}
InFlight == {t \in CmdTasks : task[t].pc = "inflight"}

\* C1: a command issued while the session is Disconnected returns False and its
\* external operation is never invoked: no command that was issued while
\* Disconnected is ever in flight in the library.
C1_IssuedDisconnectedNeverInvoked ==
    \A t \in CmdTasks : task[t].pc = "inflight" => task[t].issued_connected

\* C2: when the external operation of any public command raises, the command
\* returns False, the session is Disconnected and no DisplayState field changes.
C2_ExceptionFrame ==
    [][\A t \in CmdTasks : CommandRaise(t) =>
          /\ last'.result = "False"
          /\ last'.op = task[t].cmd.op
          /\ ~connected'
          /\ state' = state]_vars

\* C2 witness: a brightness command raised after an earlier command had changed the mirror.
C2_Witness ==
    /\ last = Done("set_brightness", "False", "raise")
    /\ ~connected
    /\ state # DefaultState
    /\ state.brightness = 255

\* C3: DisplayState changes only in an operation whose external command was
\* invoked while Connected and returned without exception.
C3_StateChangesOnlyOnConfirmedCommand ==
    [][state' # state =>
          /\ \E t \in InFlight : task'[t].pc = "idle"
          /\ last'.op \in CommandOps
          /\ last'.result = "True"
          /\ last'.ext = "ok"]_vars

\* C4: after MaxRetries consecutive failed reconnect attempts by refresh, a
\* refresh of the Disconnected session raises UpdateFailed (and connects no
\* more); a successful connect resets the retry counter to 0, and refresh of
\* the Connected session returns the state again.
C4_RetryCeiling ==
    /\ [][(RefreshStart /\ ~connected /\ fails >= MaxRetries) =>
             /\ last' = Done("refresh", "UpdateFailed", "-")
             /\ refresh_pc' = "idle"]_vars
    /\ [][(RefreshStart /\ last'.result = "UpdateFailed" /\ last' # last) =>
             fails = MaxRetries]_vars
    /\ [][(~connected /\ connected') => (retry_count' = 0 /\ fails' = 0)]_vars
    /\ [][(RefreshStart /\ connected) => last' = Done("refresh", "state", "-")]_vars

\* C4 witness: refresh has reported the failure after MaxRetries failed
\* attempts, and a connect that may clear it is under way.
C4_Witness ==
    /\ last = Done("refresh", "UpdateFailed", "-")
    /\ fails = MaxRetries
    /\ retry_count = MaxRetries
    /\ conn_pc = "connecting"

\* C5: at most one external command operation is in flight at any time.
C5_OneInFlight == Cardinality(InFlight) <= 1

\* C5 witness: one command is in the library while another waits for the lock.
C5_Witness ==
    \E t, u \in CmdTasks : task[t].pc = "inflight" /\ task[u].pc = "waiting"

\* C6: a reconnect attempt of refresh is never in progress while a command's
\* external operation is in flight.
C6_RefreshConnectExcludesCommand ==
    ~(refresh_pc = "connecting" /\ InFlight # {})

\* The device value the specification prescribes: the percentage clamped into 5..100.
ClampedPercent(b) ==
    LET p == (b * 100) \div 255
    IN IF p < 5 THEN 5 ELSE IF p > 100 THEN 100 ELSE p

\* C7: set_brightness sends floor(b*100/255) clamped into 5..100 to the device.
C7_BrightnessClamped ==
    \A t \in InFlight :
        task[t].cmd.op = "set_brightness" =>
            /\ SentValue(task[t].cmd) = ClampedPercent(task[t].cmd.n)
            /\ SentValue(task[t].cmd) \in 5..100

\* C8: connect with a handle makes the session Connected, stores the handle,
\* resets the retry counter and returns True; when the library raises or
\* yields no handle the session stays Disconnected, False is returned (no
\* exception) and the retry counter keeps its value.
C8_Connect ==
    [][\A o \in ConnectOutcomes : ConnectDone(o) =>
          /\ last'.op = "connect"
          /\ IF o = "handle"
             THEN /\ connected' /\ device' = handed' /\ device' # None
                  /\ retry_count' = 0
                  /\ last'.result = "True"
             ELSE /\ ~connected /\ ~connected'
                  /\ retry_count' = retry_count
                  /\ last'.result = "False"]_vars

\* C8 witness: a connect failed by exception on a session whose counter was not 0.
C8_Witness ==
    /\ last = Done("connect", "False", "raise")
    /\ ~connected
    /\ retry_count > 0

\* C9: when disconnect or shutdown completes the session is Disconnected; on a
\* Connected session the release of the handle is attempted once, and its
\* exception neither propagates nor prevents the transition.
C9_Disconnect ==
    /\ [][\A e \in {"disconnect", "shutdown"} : DisconnectStart(e) =>
             IF connected
             THEN disc_pc' = e /\ disc_handle' = device /\ device # None
             ELSE disc_pc' = "idle" /\ ~connected' /\ last' = Done(e, "None", "-")]_vars
    /\ [][\A r \in BOOLEAN : DisconnectDone(r) =>
             /\ ~connected'
             /\ device' = None
             /\ disc_pc' = "idle"
             /\ last' = Done(disc_pc, "None", IF r THEN "raise" ELSE "ok")]_vars

\* C9 witness: shutdown completed although the release raised.
C9_Witness ==
    /\ last = Done("shutdown", "None", "raise")
    /\ ~connected
    /\ device = None

\* C10: the connection handle is None whenever the session is not Connected.
C10_HandleNoneWhenDisconnected == ~connected => device = None

\* C11: a successful reset_device leaves DisplayState equal to the defaults of
\* __init__ (every field); a failed reset_device leaves it unchanged.
C11_ResetRestoresDefaults ==
    [][\A t \in CmdTasks : task[t].cmd.op = "reset_device" =>
          /\ CommandReturn(t) => state' = DefaultState
          /\ CommandRaise(t) => state' = state]_vars

\* Every event of a sequence carries device_id and mac_address.
WellFormedEvents(evs) ==
    \A i \in 1..Len(evs) : {"device_id", "mac_address"} \subseteq evs[i].keys

\* C12: every public command that succeeds emits an event whose payload holds
\* device_id and mac_address; a command that failed or was rejected as not
\* connected emits none.
C12_EventOnEverySuccess ==
    [][\A t \in CmdTasks :
          /\ CommandReturn(t) => (fired' # <<>> /\ WellFormedEvents(fired'))
          /\ CommandRaise(t) => fired' = <<>>
          /\ (task[t].pc # "inflight" /\ task'[t].pc = "idle"
                /\ last'.result = "False") => fired' = <<>>]_vars

\* A step in which task t's external command operation is invoked.
Invokes(t) == task[t].pc # "inflight" /\ task'[t].pc = "inflight"

\* C16: a command issued while the session is Disconnected fails fast: it
\* never waits for (or is handed) the serialization lock.
C16_FailFastWithoutLock ==
    \A t \in CmdTasks :
        task[t].pc \in {"waiting", "acquired"} => task[t].issued_connected

\* C18: the connection handle is never being released by disconnect/shutdown
\* while a command's external operation is in flight on that handle.
C18_NoReleaseDuringCommand ==
    \A t \in InFlight : ~(disc_pc # "idle" /\ disc_handle = task[t].bound)

\* C19: every external command operation is invoked on the session's current
\* connection handle: never on a replaced handle, never on a target bound
\* while the handle was None.
C19_InvokedOnCurrentHandle ==
    [][\A t \in CmdTasks : Invokes(t) =>
          (task'[t].bound = device /\ task'[t].bound # None)]_vars

\* The DisplayState fields a successful command may change.
Touched(op) ==
    CASE op \in {"turn_on", "turn_off"} -> {"is_on"}
      [] op = "set_brightness"          -> {"brightness"}
      [] op = "set_screen_flip"         -> {"screen_flipped"}
      [] op = "display_text"            -> {"last_message", "current_mode"}
      [] op = "set_clock_mode"          -> {"current_mode", "clock_style"}
      [] op = "display_effect"          -> {"current_mode", "effect_mode"}
      [] op = "start_chronograph"       -> {"current_mode"}
      [] OTHER                          -> {}

\* The value a successful command gives its matching fields.
MatchingValues(c, s) ==
    /\ c.op = "turn_on" => s.is_on = TRUE
    /\ c.op = "turn_off" => s.is_on = FALSE
    /\ c.op = "set_brightness" => s.brightness = c.n
    /\ c.op = "set_screen_flip" => s.screen_flipped = c.flag
    /\ c.op = "display_text" => (s.last_message = c.msg /\ s.current_mode = "text")
    /\ c.op = "set_clock_mode" => s.current_mode = "clock"
    /\ c.op = "display_effect" => s.current_mode = "effect"
    /\ c.op = "start_chronograph" => s.current_mode = "chronograph"

\* C20: a successful command (other than reset_device) changes only its
\* matching DisplayState fields, gives them the values of its call, and leaves
\* every other field unchanged; chronograph stop/reset, sync time and freeze
\* change nothing.
C20_SuccessFrame ==
    [][\A t \in CmdTasks :
          (CommandReturn(t) /\ task[t].cmd.op # "reset_device") =>
              /\ \A f \in DOMAIN state :
                    state'[f] # state[f] => f \in Touched(task[t].cmd.op)
              /\ MatchingValues(task[t].cmd, state')]_vars

\* C20 witness: set_brightness(128) succeeded on a mirror whose other fields
\* had been changed by earlier commands and kept their values.
C20_Witness ==
    /\ last = Done("set_brightness", "True", "ok")
    /\ state.brightness = 128
    /\ state.is_on
    /\ state.current_mode = "text"
    /\ state.last_message = "hi"

\* C17: a command exception leaves the session Disconnected; while it is
\* Disconnected no command's external operation is invoked; a refresh with the
\* retry counter below the ceiling attempts a reconnect; after its success
\* commands are invoked on the device again.
C17_RecoveryAfterCommandError ==
    /\ [][\A t \in CmdTasks : CommandRaise(t) =>
             (~connected' /\ last'.result = "False")]_vars
    /\ [][\A t \in CmdTasks : Invokes(t) => (connected /\ device # None)]_vars
    /\ [][(RefreshStart /\ ~connected /\ retry_count < MaxRetries) =>
             refresh_pc' = "connecting"]_vars
    /\ [][RefreshConnectDone("handle") => (connected' /\ device' # None)]_vars
    /\ [][\A t \in CmdTasks, c \in SessionCommands :
             (IssueCommand(t, c) /\ connected /\ LockFree) => Invokes(t)]_vars

\* C17 witness: a command raised, the session is Disconnected and refresh is
\* making its reconnect attempt.
C17_Witness ==
    /\ last = Done("turn_on", "False", "raise")
    /\ ~connected
    /\ refresh_pc = "connecting"

\* The session is Disconnected with the retry counter at the ceiling.
Ceiling == ~connected /\ retry_count >= MaxRetries

\* C15: on a hosted session the ceiling condition is persistent: once the
\* session is Disconnected with the counter at the ceiling it stays so, every
\* refresh reports UpdateFailed without starting a connection attempt and
\* leaves the counter alone, and every command that reaches the connection
\* check fails as not connected without being invoked.
C15_CeilingPersistent ==
    /\ [][Ceiling => (Ceiling' /\ retry_count' = retry_count)]_vars
    /\ [][(Ceiling /\ RefreshStart) =>
             /\ last' = Done("refresh", "UpdateFailed", "-")
             /\ refresh_pc' = "idle" /\ conn_pc' = "idle"]_vars
    /\ [][Ceiling => refresh_pc = "idle" /\ conn_pc = "idle"]_vars
    /\ [][\A t \in CmdTasks :
             (Ceiling /\ (ResumeCommand(t) \/
                          \E c \in SessionCommands : IssueCommand(t, c) /\ LockFree)) =>
                 /\ ~Invokes(t)
                 /\ task'[t].pc = "idle"
                 /\ last' = Done("turn_on", "False", "-")]_vars

\* C15 witness: a hosted session whose refresh has reported the failure at the
\* ceiling after the counted reconnect failures.
C15_Witness ==
    /\ Registered
    /\ last = Done("refresh", "UpdateFailed", "-")
    /\ Ceiling
    /\ fails = MaxRetries

\* The strings the claim describes: six pairs of hex digits, a ':' or a '-'
\* between neighbouring pairs.
SixHexPairs(s) ==
    /\ Len(s) = 17
    /\ \A i \in 1..17 : IF i % 3 = 0 THEN s[i] \in Separators ELSE s[i] \in HexDigits

\* C13: _is_valid_mac_address returns True exactly for the strings of six hex
\* pairs separated by ':' or '-' (it accepts the two well-formed examples and
\* rejects the five-pair and the non-hex one), and the manual step answers a
\* rejected address with the form and invalid_mac and creates an entry only
\* for an accepted one.
C13_MacValidation ==
    /\ IsValidMac(MacUpperColon) /\ IsValidMac(MacLowerDash)
    /\ ~IsValidMac(FivePairs) /\ ~IsValidMac(NonHexPair)
    /\ flow.step = "validate" => (flow.result = "True" <=> SixHexPairs(flow.input))
    /\ flow.step = "manual" =>
          /\ ~SixHexPairs(Upper(flow.input)) =>
                (flow.result = "form" /\ flow.error = "invalid_mac")
          /\ flow.result = "create_entry" => SixHexPairs(Upper(flow.input))

\* The device an address names: letter case and the separator do not matter.
SameDevice(a, b) ==
    /\ Len(a) = Len(b)
    /\ \A i \in 1..Len(a) :
          \/ UpperChar(a[i]) = UpperChar(b[i])
          \/ {a[i], b[i]} \subseteq Separators

\* C14: no two config entries are for the same device, whatever the letter
\* case or separator of the addresses they were created from.
C14_NoDuplicateDevice ==
    \A a, b \in entries : SameDevice(a, b) => a = b

\* C21: every command that waits for the lock, holds it or is in flight
\* eventually returns (its coroutine is idle again); a command that finds the
\* lock free and the session disconnected returns in the step that issues it.
C21_CommandsReturn ==
    \A t \in CmdTasks : (task[t].pc # "idle") ~> (task[t].pc = "idle")

\* C21 witness: the not-connected path released the lock to a waiting command.
C21_Witness ==
    /\ last = Done("turn_on", "False", "-")
    /\ \E t \in CmdTasks : task[t].pc = "acquired" /\ command_lock = t

\* Connection attempts refresh has made since the last successful connect,
\* the one under way included.
RefreshAttempts == fails + (IF refresh_pc = "connecting" THEN 1 ELSE 0)

\* C22: the retry counter stays within 0..MaxRetries and is 0 whenever the
\* session is Connected; refresh makes at most MaxRetries connection attempts
\* between two successful connects; and a refresh whose reconnect attempt
\* fails returns the mirrored state (no UpdateFailed) and counts the failure.
C22_RetryCounterRange ==
    /\ [](retry_count \in 0..MaxRetries)
    /\ [](connected => retry_count = 0)
    /\ [](RefreshAttempts <= MaxRetries)
    /\ [][\A o \in {"none", "raise"} : RefreshConnectDone(o) =>
             /\ retry_count < MaxRetries
             /\ last' = Done("refresh", "state", o)
             /\ retry_count' = retry_count + 1
             /\ ~connected']_vars

\* C22 witness: a refresh returned the state after its reconnect attempt
\* failed below the ceiling.
C22_Witness ==
    /\ last = Done("refresh", "state", "raise")
    /\ ~connected
    /\ retry_count = 1 /\ retry_count < MaxRetries

\* C23: a refresh of the Connected session calls nothing in the library (no
\* connect or disconnect is started, no handle is handed out) and leaves the
\* connection state, the handle, the retry counter and the DisplayState
\* unchanged; the dict it returns equals the DisplayState, and a later change
\* of that dict by the caller leaves the DisplayState unchanged.
C23_ConnectedRefreshFrame ==
    /\ [][(RefreshStart /\ connected) =>
             /\ last' = Done("refresh", "state", "-")
             /\ UNCHANGED <<connected, device, retry_count, state, handed,
                            refresh_pc, conn_pc, disc_pc, disc_handle>>
             /\ data'.returned /\ data'.value = state]_vars
    /\ [][\A f \in ModifiedFields : CallerModifiesData(f) => state' = state]_vars

\* C23 witness: the caller changed the dict a refresh of the Connected session
\* returned, after a command had changed the DisplayState.
C23_Witness ==
    /\ connected
    /\ last = Done("refresh", "state", "-")
    /\ state.is_on /\ state.last_message = "hi"
    /\ data.returned /\ data.value # state

\* C24: the session is registered only in the step in which the initial
\* connect of setup succeeds; a failed initial connect ends setup with
\* ConfigEntryNotReady and an unchanged registry; a failed platform unload
\* returns False and leaves registry and connection as they are; a successful
\* one pops the session, and unload returns True only with the session
\* unregistered and Disconnected; nothing else removes a session.
C24_RegistryConsistent ==
    /\ [][(EntryId \notin registry /\ EntryId \in registry') =>
             (setup_pc = "connecting" /\ connected' /\ device' # None)]_vars
    /\ [][SetupConnectDone("handle") => EntryId \in registry']_vars
    /\ [][\A o \in {"none", "raise"} : SetupConnectDone(o) =>
             /\ last' = Done("setup", "ConfigEntryNotReady", o)
             /\ registry' = registry /\ EntryId \notin registry']_vars
    /\ [][UnloadPlatformsDone(FALSE) =>
             /\ last' = Done("unload", "False", "-")
             /\ UNCHANGED <<registry, connected, device, disc_pc>>]_vars
    /\ [][UnloadPlatformsDone(TRUE) => EntryId \notin registry']_vars
    /\ [][(last' # last /\ last'.op = "unload" /\ last'.result = "True") =>
             (EntryId \notin registry' /\ ~connected')]_vars
    /\ [][(EntryId \in registry /\ EntryId \notin registry') =>
             UnloadPlatformsDone(TRUE)]_vars

\* C24 witness: a loaded, connected session was unloaded: it is unregistered
\* and Disconnected after its handle was released.
C24_Witness ==
    /\ last = Done("unload", "True", "ok")
    /\ registry = {}
    /\ ~connected /\ device = None
    /\ handed >= 1

====
